---- MODULE Spec2Model ----
(***************************************************************************)
(* A model of dns-soa-monitor (src/main.go): one perpetual poll loop per   *)
(* domain, a concurrent fan-out of SOA fetches per cycle, reconciliation   *)
(* of the primaries' serials against a maximum remembered between polls,   *)
(* lag computation in int64 and error accounting.                          *)
(***************************************************************************)
EXTENDS Integers, Sequences, FiniteSets, TLC

(***************************************************************************)
(* Machine integers.  A uint32 is two 16-bit limbs <<hi, lo>>; an int64 is *)
(* four 16-bit limbs <<l3, l2, l1, l0>> in two's complement.               *)
(***************************************************************************)
Limb == 65536

MaxLimb == 65535

SignLimb == 32768

\* The largest small serial a fetch may return (on top of 2^32 - 1).
MaxSmallSerial == 1

\* Error channels / consumer goroutines of one domain that may be alive at once.
MaxConsumers == 2

\* Cap on the number of errors inside the rate counter's window.
MaxErrors == 1

AllDomains == {"d1", "d2"}

\* maxSerialPrimaryServer := ""
NoServer == ""

\* uint32(0)
Zero32 == <<0, 0>>

\* int64(0)
Zero64 == <<0, 0, 0, 0>>

SerialValues == {<<0, n>> : n \in 0..MaxSmallSerial} \cup {<<MaxLimb, MaxLimb>>}

\* The most records in the answer section of a response.
MaxAnswer == 2

\* err == nil
Nil == "nil"

\* The records an answer section is made of: an SOA record with its serial, or
\* a record of another type.
Records ==
    {[type |-> "SOA", serial |-> v] : v \in SerialValues}
        \cup {[type |-> "CNAME", serial |-> Zero32]}

Answers == UNION {[1..n -> Records] : n \in 0..MaxAnswer}

\* r of: r, err := dns.Exchange(m, server+":53"); r == nil is present = FALSE
Msgs ==
    {[present |-> TRUE, rcode |-> c, answer |-> a] :
        c \in {"RcodeSuccess", "RcodeServerFailure"}, a \in Answers}
        \cup {[present |-> FALSE, rcode |-> "RcodeSuccess", answer |-> <<>>]}

\* what dns.Exchange can return: <<r, err>>
Responses == [r : Msgs, err : {Nil, "i/o timeout"}]

\* errors.Wrapf(err, message): nil for a nil err
Wrapf(err, message) == IF err = Nil THEN Nil ELSE message

\* getSerial, from the return of dns.Exchange on: <<serial, err>>
getSerial(response) ==
    LET r == response.r
        err == response.err
    IN  IF err # Nil
        THEN [serial |-> Zero32, err |-> Wrapf(err, "failed to exchange")]
        ELSE IF ~r.present \/ r.rcode # "RcodeSuccess"
        THEN [serial |-> Zero32, err |-> Wrapf(err, "failed to get an valid answer")]
        ELSE IF Len(r.answer) = 0
        THEN [serial |-> Zero32, err |-> "no records returned for soa query"]
        ELSE IF Len(r.answer) > 1
        THEN [serial |-> Zero32, err |-> "too many records returned for soa query"]
        ELSE IF r.answer[1].type = "SOA"
        THEN [serial |-> r.answer[1].serial, err |-> Nil]
        ELSE [serial |-> Zero32, err |-> "no soa record returned"]

\* an exchange that fails
ExchangeFails ==
    [r |-> [present |-> FALSE, rcode |-> "RcodeSuccess", answer |-> <<>>],
     err |-> "i/o timeout"]

\* an exchange that returns the single SOA record of the zone, serial 1
ExchangeAnswers ==
    [r |-> [present |-> TRUE, rcode |-> "RcodeSuccess",
            answer |-> <<[type |-> "SOA", serial |-> <<0, 1>>]>>],
     err |-> Nil]

\* The configurations (PRIMARY_SERVERS, SECONDARY_SERVERS, m != nil) explored.
Configurations ==
    { [p |-> <<"a", "b">>, s |-> <<"c">>, m |-> TRUE, debug |-> FALSE],
      [p |-> <<"a">>, s |-> <<"a">>, m |-> FALSE, debug |-> TRUE] }

\* primarySerial >= maxSerial on uint32
Ge32(x, y) == x[1] > y[1] \/ (x[1] = y[1] /\ x[2] >= y[2])

\* primarySerial > maxSerial on uint32
Gt32(x, y) == x[1] > y[1] \/ (x[1] = y[1] /\ x[2] > y[2])

\* int64(x) for a uint32 x: zero extension
Int64Of(x) == <<0, 0, x[1], x[2]>>

\* x - y on int64, wrapping modulo 2^64
Sub64(x, y) ==
    LET d0 == x[4] - y[4]
        b0 == IF d0 < 0 THEN 1 ELSE 0
        d1 == x[3] - y[3] - b0
        b1 == IF d1 < 0 THEN 1 ELSE 0
        d2 == x[2] - y[2] - b1
        b2 == IF d2 < 0 THEN 1 ELSE 0
        d3 == x[1] - y[1] - b2
    IN  <<d3 % Limb, d2 % Limb, d1 % Limb, d0 % Limb>>

Neg64(x) == x[1] >= SignLimb

\* x > y on int64 (signed)
Gt64(x, y) ==
    IF Neg64(x) # Neg64(y)
    THEN Neg64(y)
    ELSE \E i \in 1..4 : x[i] > y[i] /\ \A j \in 1..(i - 1) : x[j] = y[j]

\* int64(maxSerial) - int64(secondarySerial), as a uint32 subtraction would give it
LagSecondsUint32(max, serial) ==
    LET d == Sub64(Int64Of(max), Int64Of(serial))
    IN  <<0, 0, d[3], d[4]>>

\* int64(secondarySerial) - int64(maxSerial): the operands exchanged
LagSecondsReversed(max, serial) == Sub64(Int64Of(serial), Int64Of(max))

\* lagSeconds := int64(maxSerial) - int64(secondarySerial)
LagSeconds(max, serial) == Sub64(Int64Of(max), Int64Of(serial))

EmptyMap == [x \in {} |-> Zero32]

\* ok of: serial, ok := serials[server], were it never tested
MapHasAlways(map, k) == TRUE

\* ok of: serial, ok := serials[server]
MapHas(map, k) == k \in DOMAIN map

\* serial of: serial, ok := serials[server] (the zero value for a missing key)
MapGet(map, k) == IF k \in DOMAIN map THEN map[k] ELSE Zero32

\* serials[server] = serial
MapAssign(map, k, v) == [x \in DOMAIN map \cup {k} |-> IF x = k THEN v ELSE map[x]]

VARIABLES
    domainNames,            \* DOMAIN_NAMES
    primaryServers,         \* PRIMARY_SERVERS
    secondaryServers,       \* SECONDARY_SERVERS
    metricsOn,              \* m != nil
    debugOn,                \* debug
    rpc,                    \* position of the goroutine running runErrorCountReporter
    errorRate,              \* errorRate of runErrorCountReporter, as reported last
    replies,                \* the responses queries for a domain are restricted to,
                            \* <<>> if to none
    errorCount,             \* errorRateCounter: errors inside the window
    pc,                     \* position of each domain monitor
    maxSerial,              \* remembered between polls
    maxSerialPrimaryServer, \* remembered between polls
    serials,                \* the cycle's map server -> serial
    wg,                     \* sync.WaitGroup counter
    mutex,                  \* goroutine holding the mutex, 0 if none
    gpc,                    \* position of each fetch goroutine (ends "done" or "failed")
    gserial,                \* serial returned by each goroutine's getSerial
    fetches,                \* history: getSerial calls of each goroutine in the cycle
    gsnap,                  \* map contents a goroutine's map assignment works on
    cpc,                    \* position of the cycle's error consumer goroutine
    closed,                 \* close(errs) done
    older,                  \* consumers of earlier cycles still running, per position
    tracked,                \* history: one of those consumers, followed until it returns
    uncounted,              \* history: error events of the cycle not counted yet
    uncountedOlder,         \* history: error events of earlier cycles not counted yet
    outcome,                \* history: how the current cycle ended
    prevMaxSerial,          \* maxSerial as the cycle found it
    prevPrimaryServer,      \* maxSerialPrimaryServer at that point
    observed,               \* history: largest primary serial of any PollResult so far
    lagSamples,             \* lagSeconds computed in the cycle
    maxLagSeconds,          \* maxLagSeconds of the cycle
    gauges,                 \* lag_seconds gauge updates sent in the cycle
    maxLagGauge,            \* max_lag_seconds gauge updates sent in the cycle
    snap                    \* history: an earlier evaluation, kept for comparison

vars == <<domainNames, primaryServers, secondaryServers, metricsOn, debugOn, replies,
          rpc, errorRate, errorCount,
          pc, maxSerial, maxSerialPrimaryServer, serials, wg, mutex, gpc,
          gserial, fetches, gsnap, cpc, closed, older, tracked, uncounted, uncountedOlder, outcome,
          prevMaxSerial, prevPrimaryServer, observed, lagSamples, maxLagSeconds, gauges,
          maxLagGauge, snap>>

configVars == <<domainNames, primaryServers, secondaryServers, metricsOn, debugOn, replies>>

reporterVars == <<rpc, errorRate>>

memoryVars == <<maxSerial, maxSerialPrimaryServer, prevMaxSerial, prevPrimaryServer, observed>>

goVars == <<serials, wg, mutex, gpc, gserial, fetches, gsnap>>

chanVars == <<cpc, closed, older, tracked>>

reportVars == <<lagSamples, maxLagSeconds, gauges, maxLagGauge>>

\* targetServers: primaries followed by secondaries
TargetServers == primaryServers \o secondaryServers

Goroutines == 1..Len(TargetServers)

\* where a consumer of an earlier cycle can be: in processError, or at the
\* receive of its closed channel
OlderPositions == {"process", "recv"}

NoneOlder == [k \in OlderPositions |-> 0]

\* the server a fetch goroutine was started for: go func(server string) {...}(server)
GoroutineServer(i) == TargetServers[i]

(***************************************************************************)
(* runErrorCountReporter.  main starts it before the monitors; its entry   *)
(* test reads only m and debug, which no longer change, so that the state  *)
(* after start-up has it either in its loop or returned.                   *)
(***************************************************************************)
\* The divisor of: errorRateCounter.Rate() / 60
RateDivisor == 60

\* if m == nil || !debug
NothingToReportEither == ~metricsOn \/ ~debugOn

\* if m == nil && !debug
NothingToReport == ~metricsOn /\ ~debugOn

\* if m == nil && !debug { return }, else the for loop
ReporterStart == IF NothingToReport THEN "returned" ELSE "report"

\* one iteration of the for loop: errorRate := errorRateCounter.Rate() / 60,
\* the counter update and the log line, time.Sleep
Report ==
    /\ rpc = "report"
    /\ errorRate' = errorCount \div RateDivisor
    /\ UNCHANGED <<configVars, snap, memoryVars, reportVars, goVars, chanVars, pc,
                   errorCount, rpc, uncounted, uncountedOlder, outcome>>

\* The state as runDomainMonitor is started for each of the domains; following
\* is "none" where a consumer is followed and "off" where none is.
InitFollowing(domains, configurations, exchanges, following) ==
    /\ tracked = [d \in AllDomains |-> following]
    /\ domainNames = domains
    /\ replies \in {f \in [AllDomains -> exchanges \cup {<<>>}] :
                        \A d \in AllDomains :
                            IF d \in domains THEN f[d] \in exchanges ELSE f[d] = <<>>}
    /\ \E c \in configurations :
          /\ primaryServers = c.p
          /\ secondaryServers = c.s
          /\ metricsOn = c.m
          /\ debugOn = c.debug
    /\ rpc = ReporterStart
    /\ errorRate = 0
    /\ errorCount = 0
    /\ pc = [d \in AllDomains |-> IF d \in domains THEN "poll" ELSE "off"]
    /\ maxSerial = [d \in AllDomains |-> Zero32]
    /\ maxSerialPrimaryServer = [d \in AllDomains |-> NoServer]
    /\ serials = [d \in AllDomains |-> EmptyMap]
    /\ wg = [d \in AllDomains |-> 0]
    /\ mutex = [d \in AllDomains |-> 0]
    /\ gpc = [d \in AllDomains |-> [i \in Goroutines |-> "idle"]]
    /\ gserial = [d \in AllDomains |-> [i \in Goroutines |-> Zero32]]
    /\ fetches = [d \in AllDomains |-> [i \in Goroutines |-> 0]]
    /\ gsnap = [d \in AllDomains |-> [i \in Goroutines |-> EmptyMap]]
    /\ cpc = [d \in AllDomains |-> "done"]
    /\ closed = [d \in AllDomains |-> TRUE]
    /\ older = [d \in AllDomains |-> NoneOlder]
    /\ uncounted = [d \in AllDomains |-> 0]
    /\ uncountedOlder = [d \in AllDomains |-> 0]
    /\ outcome = [d \in AllDomains |-> "none"]
    /\ prevMaxSerial = [d \in AllDomains |-> Zero32]
    /\ prevPrimaryServer = [d \in AllDomains |-> NoServer]
    /\ observed = [d \in AllDomains |-> Zero32]
    /\ lagSamples = [d \in AllDomains |-> <<>>]
    /\ maxLagSeconds = [d \in AllDomains |-> Zero64]
    /\ gauges = [d \in AllDomains |-> <<>>]
    /\ maxLagGauge = [d \in AllDomains |-> <<>>]
    /\ snap = [d \in AllDomains |-> <<>>]

InitWith(domains, configurations, exchanges) ==
    InitFollowing(domains, configurations, exchanges, "off")

Init == InitWith({"d1"}, Configurations, {<<>>})

(***************************************************************************)
(* The evaluation loops of runDomainMonitor.                               *)
(***************************************************************************)
\* for _, primaryServer := range primaryServers { ... }: <<maxSerial, maxSerialPrimaryServer>>
RECURSIVE ReconcileLoop(_, _, _, _)
ReconcileLoop(map, i, max, server) ==
    IF i > Len(primaryServers)
    THEN <<max, server>>
    ELSE LET primaryServer == primaryServers[i]
         IN  IF ~MapHas(map, primaryServer)
             THEN ReconcileLoop(map, i + 1, max, server)
             ELSE IF Gt32(MapGet(map, primaryServer), max)
                  THEN ReconcileLoop(map, i + 1, MapGet(map, primaryServer), primaryServer)
                  ELSE ReconcileLoop(map, i + 1, max, server)

\* secondarySerial, were it the serial the entry's own fetch returned
OwnSerial(map, fetched, i) == fetched[i]

\* secondarySerial of: secondarySerial, ok := serials[secondaryServer]
SecondarySerial(map, fetched, i) == MapGet(map, TargetServers[i])

\* for _, secondaryServer := range targetServers { ... }: <<samples, maxLagSeconds>>
\* (fetched: what each goroutine's fetch returned, which the loop does not read)
RECURSIVE LagLoop(_, _, _, _, _, _)
LagLoop(map, fetched, i, max, samples, maxLag) ==
    IF i > Len(TargetServers)
    THEN <<samples, maxLag>>
    ELSE LET secondaryServer == TargetServers[i]
         IN  IF ~MapHas(map, secondaryServer)
             THEN LagLoop(map, fetched, i + 1, max, samples, maxLag)
             ELSE LET secondarySerial == SecondarySerial(map, fetched, i)
                      lagSeconds == LagSeconds(max, secondarySerial)
                      sample == [index |-> i,
                                 server |-> secondaryServer,
                                 serial |-> secondarySerial,
                                 max |-> max,
                                 lag |-> lagSeconds]
                  IN  LagLoop(map, fetched, i + 1, max, Append(samples, sample),
                              IF Gt64(lagSeconds, maxLag) THEN lagSeconds ELSE maxLag)

\* the gauge updates g <- int64(lagSeconds), sent only if m != nil
GaugeUpdates(primary, samples) ==
    IF metricsOn
    THEN [k \in 1..Len(samples) |->
            [primary |-> primary, secondary |-> samples[k].server, value |-> samples[k].lag]]
    ELSE <<>>

(***************************************************************************)
(* getSerials: the fan-out of fetch goroutines and the barrier.            *)
(***************************************************************************)
\* mutex.Lock() returns, were there no mutex
CanLockNoMutex(d) == TRUE

\* mutex.Lock() returns, were the mutex one package-level mutex
CanLockShared(d) == \A e \in AllDomains : mutex[e] = 0

\* mutex.Lock() returns
CanLock(d) == mutex[d] = 0

\* wg.Wait() returns, were it to wait for all goroutines but one
WaitReturnsEarly(d) == wg[d] <= 1

\* wg.Wait() returns
WaitReturns(d) == wg[d] = 0

\* consumer goroutines of d that have not returned
LiveConsumers(d) ==
    (IF cpc[d] = "done" THEN 0 ELSE 1) + older[d]["process"] + older[d]["recv"]

\* what tracked[d] can become as the loop leaves the consumer of the cycle
\* before behind: that consumer may be the one followed from now on
FollowFromPoll(d) ==
    IF tracked[d] = "none" /\ cpc[d] # "done" THEN {"none", cpc[d]} ELSE {tracked[d]}

\* whether the consumer of an earlier cycle that steps from position k is the
\* followed one (TRUE) or another one (FALSE)
SteppingOlder(d, k) ==
    {own \in BOOLEAN : IF own THEN tracked[d] = k
                                ELSE older[d][k] > (IF tracked[d] = k THEN 1 ELSE 0)}

\* One loop iteration up to the end of the fan-out: make(chan error), the
\* consumer goroutine, make(map), one goroutine per target server.
Poll(d) ==
    /\ pc[d] = "poll"
    /\ LiveConsumers(d) < MaxConsumers
    /\ older' = [older EXCEPT ![d] =
                    IF cpc[d] = "done" THEN @ ELSE [@ EXCEPT ![cpc[d]] = @ + 1]]
    /\ \E following \in FollowFromPoll(d) : tracked' = [tracked EXCEPT ![d] = following]
    /\ uncountedOlder' = [uncountedOlder EXCEPT ![d] = @ + uncounted[d]]
    /\ cpc' = [cpc EXCEPT ![d] = "recv"]
    /\ closed' = [closed EXCEPT ![d] = FALSE]
    /\ uncounted' = [uncounted EXCEPT ![d] = 0]
    /\ outcome' = [outcome EXCEPT ![d] = "none"]
    /\ serials' = [serials EXCEPT ![d] = EmptyMap]
    /\ wg' = [wg EXCEPT ![d] = Len(TargetServers)]
    /\ mutex' = [mutex EXCEPT ![d] = 0]
    /\ gpc' = [gpc EXCEPT ![d] = [i \in Goroutines |-> "fetch"]]
    /\ gserial' = [gserial EXCEPT ![d] = [i \in Goroutines |-> Zero32]]
    /\ fetches' = [fetches EXCEPT ![d] = [i \in Goroutines |-> 0]]
    /\ gsnap' = [gsnap EXCEPT ![d] = [i \in Goroutines |-> EmptyMap]]
    /\ lagSamples' = [lagSamples EXCEPT ![d] = <<>>]
    /\ gauges' = [gauges EXCEPT ![d] = <<>>]
    /\ maxLagGauge' = [maxLagGauge EXCEPT ![d] = <<>>]
    /\ maxLagSeconds' = [maxLagSeconds EXCEPT ![d] = Zero64]
    /\ prevMaxSerial' = [prevMaxSerial EXCEPT ![d] = maxSerial[d]]
    /\ prevPrimaryServer' = [prevPrimaryServer EXCEPT ![d] = maxSerialPrimaryServer[d]]
    /\ snap' = [snap EXCEPT ![d] = IF @ = <<>> THEN @ ELSE [@ EXCEPT !.old = TRUE]]
    /\ pc' = [pc EXCEPT ![d] = "wait"]
    /\ UNCHANGED <<configVars, reporterVars, maxSerial, maxSerialPrimaryServer, observed,
                   errorCount>>

\* what getSerial(domainName, server) can return, for any response
AnyReturn == {getSerial(response) : response \in Responses}

\* what getSerial(domainName, server) can return in this run
Returns(d) ==
    IF replies[d] = <<>>
    THEN AnyReturn
    ELSE {getSerial(replies[d][k]) : k \in DOMAIN replies[d]}

\* where a goroutine goes on an error, were it to call getSerial again
ErrorBranchRetry == "fetch"

\* where a goroutine goes on an error: if err != nil { errs <- err; return }
ErrorBranch == "send"

\* getSerial returns a serial
FetchOk(d, i) ==
    /\ gpc[d][i] = "fetch"
    /\ \E returned \in Returns(d) :
          /\ returned.err = Nil
          /\ gserial' = [gserial EXCEPT ![d][i] = returned.serial]
    /\ fetches' = [fetches EXCEPT ![d][i] = @ + 1]
    /\ gpc' = [gpc EXCEPT ![d][i] = "lock"]
    /\ UNCHANGED <<configVars, reporterVars, snap, memoryVars, reportVars, chanVars, errorCount,
                   pc, serials, wg, mutex, gsnap, uncounted, uncountedOlder, outcome>>

\* wg.Done() called at once, ahead of errs <- err
DoneNotDeferred == TRUE

\* defer wg.Done(): Done runs as the goroutine function returns, so on the
\* error branch it does not run before errs <- err has completed
DoneBeforeSend == FALSE

\* getSerial returns an error
FetchFail(d, i) ==
    /\ gpc[d][i] = "fetch"
    /\ \E returned \in Returns(d) : returned.err # Nil
    /\ fetches' = [fetches EXCEPT ![d][i] = @ + 1]
    /\ gpc' = [gpc EXCEPT ![d][i] = ErrorBranch]
    /\ wg' = [wg EXCEPT ![d] = IF DoneBeforeSend THEN @ - 1 ELSE @]
    /\ uncounted' = [uncounted EXCEPT ![d] = @ + 1]
    /\ UNCHANGED <<configVars, reporterVars, snap, memoryVars, reportVars, chanVars, errorCount,
                   pc, serials, mutex, gserial, gsnap, uncountedOlder, outcome>>

\* the consumer is at the receive of: for err := range errs, were the
\* consumer goroutine started after getSerials has returned
ReceivingLate(d) == cpc[d] = "recv" /\ ~closed[d] /\ pc[d] # "wait"

\* the consumer is at the receive of: for err := range errs
Receiving(d) == cpc[d] = "recv" /\ ~closed[d]

\* errs <- err on the unbuffered channel, then the deferred wg.Done()
Send(d, i) ==
    /\ gpc[d][i] = "send"
    /\ Receiving(d)
    /\ cpc' = [cpc EXCEPT ![d] = "process"]
    /\ gpc' = [gpc EXCEPT ![d][i] = "failed"]
    /\ wg' = [wg EXCEPT ![d] = IF DoneBeforeSend THEN @ ELSE @ - 1]
    /\ UNCHANGED <<configVars, reporterVars, snap, memoryVars, reportVars, errorCount, pc,
                   serials, mutex, gserial, fetches, gsnap, closed, older, tracked, uncounted,
                   uncountedOlder, outcome>>

\* mutex.Lock(); the map assignment serials[server] = serial reads the map ...
Lock(d, i) ==
    /\ gpc[d][i] = "lock"
    /\ CanLock(d)
    /\ mutex' = [mutex EXCEPT ![d] = i]
    /\ gsnap' = [gsnap EXCEPT ![d][i] = serials[d]]
    /\ gpc' = [gpc EXCEPT ![d][i] = "locked"]
    /\ UNCHANGED <<configVars, reporterVars, snap, memoryVars, reportVars, chanVars, errorCount,
                   pc, serials, wg, gserial, fetches, uncounted, uncountedOlder, outcome>>

\* ... and writes it back with the entry set; mutex.Unlock(); the deferred wg.Done()
Unlock(d, i) ==
    /\ gpc[d][i] = "locked"
    /\ serials' = [serials EXCEPT ![d] = MapAssign(gsnap[d][i], GoroutineServer(i), gserial[d][i])]
    /\ gsnap' = [gsnap EXCEPT ![d][i] = EmptyMap]
    /\ mutex' = [mutex EXCEPT ![d] = 0]
    /\ wg' = [wg EXCEPT ![d] = @ - 1]
    /\ gpc' = [gpc EXCEPT ![d][i] = "done"]
    /\ UNCHANGED <<configVars, reporterVars, snap, memoryVars, reportVars, chanVars, errorCount,
                   pc, gserial, fetches, uncounted, uncountedOlder, outcome>>

\* wg.Wait() returns; close(errs); return serials
WgWait(d) ==
    /\ pc[d] = "wait"
    /\ WaitReturns(d)
    /\ closed' = [closed EXCEPT ![d] = TRUE]
    /\ pc' = [pc EXCEPT ![d] = "reconcile"]
    /\ UNCHANGED <<configVars, reporterVars, snap, memoryVars, reportVars, goVars, errorCount,
                   cpc, older, tracked, uncounted, uncountedOlder, outcome>>

(***************************************************************************)
(* The error consumer goroutine and processError.                          *)
(***************************************************************************)
\* The count of the rate counter's window as a new increment enters it: Incr
\* never blocks, and once the window holds MaxErrors increments the oldest of
\* them has left it by the time the next one enters.
WindowAt(n) == IF n < MaxErrors THEN n ELSE n - 1

\* errorRateCounter.Incr(2)
IncrTwice(n) == n + 2

\* errorRateCounter.Incr(1)
Incr(n) == n + 1

\* processError(err) in the cycle's consumer: errorRateCounter.Incr(1)
ConsumerProcess(d) ==
    /\ cpc[d] = "process"
    /\ errorCount' = Incr(WindowAt(errorCount))
    /\ uncounted' = [uncounted EXCEPT ![d] =
                        @ - (Incr(WindowAt(errorCount)) - WindowAt(errorCount))]
    /\ cpc' = [cpc EXCEPT ![d] = "recv"]
    /\ UNCHANGED <<configVars, reporterVars, snap, memoryVars, reportVars, goVars, pc, closed,
                   older, tracked, uncountedOlder, outcome>>

\* for err := range errs ends: the channel is closed
RangeEnds(d) == closed[d]

ConsumerExit(d) ==
    /\ cpc[d] = "recv"
    /\ RangeEnds(d)
    /\ cpc' = [cpc EXCEPT ![d] = "done"]
    /\ UNCHANGED <<configVars, reporterVars, snap, memoryVars, reportVars, goVars, errorCount, pc,
                   closed, older, tracked, uncounted, uncountedOlder, outcome>>

\* processError(err) in a consumer of an earlier cycle
OlderProcess(d) ==
    /\ older[d]["process"] > 0
    /\ errorCount' = Incr(WindowAt(errorCount))
    /\ uncountedOlder' = [uncountedOlder EXCEPT ![d] =
                             @ - (Incr(WindowAt(errorCount)) - WindowAt(errorCount))]
    /\ older' = [older EXCEPT ![d]["process"] = @ - 1, ![d]["recv"] = @ + 1]
    /\ \E own \in SteppingOlder(d, "process") :
          tracked' = [tracked EXCEPT ![d] = IF own THEN "recv" ELSE @]
    /\ UNCHANGED <<configVars, reporterVars, snap, memoryVars, reportVars, goVars, pc, cpc,
                   closed, uncounted, outcome>>

\* a consumer of an earlier cycle finds its channel closed and returns
OlderExit(d) ==
    /\ older[d]["recv"] > 0
    /\ older' = [older EXCEPT ![d]["recv"] = @ - 1]
    /\ \E own \in SteppingOlder(d, "recv") :
          tracked' = [tracked EXCEPT ![d] = IF own THEN "none" ELSE @]
    /\ UNCHANGED <<configVars, reporterVars, snap, memoryVars, reportVars, goVars, errorCount, pc,
                   cpc, closed, uncounted, uncountedOlder, outcome>>

\* an increment leaves the rate counter's 60 second window
ExpireError ==
    /\ errorCount > 0
    /\ errorCount' = errorCount - 1
    /\ UNCHANGED <<configVars, reporterVars, snap, memoryVars, reportVars, goVars, chanVars, pc,
                   uncounted, uncountedOlder, outcome>>

(***************************************************************************)
(* Evaluation, reporting and sleep.                                        *)
(***************************************************************************)
\* x < y for serials
SerialLess(x, y) == x[1] < y[1] \/ (x[1] = y[1] /\ x[2] < y[2])

\* positions of the primaries that have an entry in the PollResult
PrimaryEntries(d) == {i \in 1..Len(primaryServers) : primaryServers[i] \in DOMAIN serials[d]}

\* the first primary, in configured order, holding the largest serial of the PollResult
LargestPrimary(d) ==
    LET S(i) == serials[d][primaryServers[i]]
    IN  primaryServers[CHOOSE i \in PrimaryEntries(d) :
                           \A j \in PrimaryEntries(d) :
                               /\ ~SerialLess(S(i), S(j))
                               /\ j < i => SerialLess(S(j), S(i))]

\* the largest primary serial of the PollResults up to and including this one
ObservedNow(d) ==
    IF PrimaryEntries(d) # {} /\ SerialLess(observed[d], serials[d][LargestPrimary(d)])
    THEN serials[d][LargestPrimary(d)]
    ELSE observed[d]

\* maxSerial and maxSerialPrimaryServer declared inside the loop body
DeclaredInLoop(d) == <<Zero32, NoServer>>

\* maxSerial and maxSerialPrimaryServer are declared before the loop
Remembered(d) == <<maxSerial[d], maxSerialPrimaryServer[d]>>

\* primary reconciliation
Reconcile(d) ==
    /\ pc[d] = "reconcile"
    /\ LET r == ReconcileLoop(serials[d], 1, Remembered(d)[1], Remembered(d)[2])
       IN  /\ maxSerial' = [maxSerial EXCEPT ![d] = r[1]]
           /\ maxSerialPrimaryServer' = [maxSerialPrimaryServer EXCEPT ![d] = r[2]]
    /\ observed' = [observed EXCEPT ![d] = ObservedNow(d)]
    /\ pc' = [pc EXCEPT ![d] = "check"]
    /\ UNCHANGED <<configVars, reporterVars, snap, reportVars, prevMaxSerial, prevPrimaryServer,
                   goVars, chanVars, errorCount, uncounted, uncountedOlder, outcome>>

\* if maxSerialPrimaryServer == ""
NoPrimaryResponded(d) == maxSerialPrimaryServer[d] = NoServer

\* if maxSerialPrimaryServer == "" { processError(err); continue }
NoPrimary(d) ==
    /\ pc[d] = "check"
    /\ NoPrimaryResponded(d)
    /\ errorCount' = Incr(WindowAt(errorCount))
    /\ uncounted' = [uncounted EXCEPT ![d] =
                        @ + 1 - (Incr(WindowAt(errorCount)) - WindowAt(errorCount))]
    /\ outcome' = [outcome EXCEPT ![d] = "NoPrimaryResponded"]
    /\ pc' = [pc EXCEPT ![d] = "poll"]
    /\ UNCHANGED <<configVars, reporterVars, snap, memoryVars, reportVars, goVars, chanVars,
                   uncountedOlder>>

\* the lag loop and the gauge updates
ComputeLag(d) ==
    /\ pc[d] = "check"
    /\ ~NoPrimaryResponded(d)
    /\ LET r == LagLoop(serials[d], gserial[d], 1, maxSerial[d], <<>>, Zero64)
       IN  /\ lagSamples' = [lagSamples EXCEPT ![d] = r[1]]
           /\ maxLagSeconds' = [maxLagSeconds EXCEPT ![d] = r[2]]
           /\ gauges' = [gauges EXCEPT ![d] = GaugeUpdates(maxSerialPrimaryServer[d], r[1])]
           /\ maxLagGauge' = [maxLagGauge EXCEPT ![d] = IF metricsOn THEN <<r[2]>> ELSE <<>>]
    /\ outcome' = [outcome EXCEPT ![d] = "published"]
    /\ pc' = [pc EXCEPT ![d] = "sleep"]
    /\ UNCHANGED <<configVars, reporterVars, snap, memoryVars, goVars, chanVars, errorCount,
                   uncounted, uncountedOlder>>

\* time.Sleep(pollInterval)
Sleep(d) ==
    /\ pc[d] = "sleep"
    /\ pc' = [pc EXCEPT ![d] = "poll"]
    /\ UNCHANGED <<configVars, reporterVars, snap, memoryVars, reportVars, goVars, chanVars,
                   errorCount, uncounted, uncountedOlder, outcome>>

Next ==
    \/ \E d \in domainNames : Poll(d)
    \/ \E d \in domainNames : \E i \in Goroutines : FetchOk(d, i)
    \/ \E d \in domainNames : \E i \in Goroutines : FetchFail(d, i)
    \/ \E d \in domainNames : \E i \in Goroutines : Send(d, i)
    \/ \E d \in domainNames : \E i \in Goroutines : Lock(d, i)
    \/ \E d \in domainNames : \E i \in Goroutines : Unlock(d, i)
    \/ \E d \in domainNames : WgWait(d)
    \/ \E d \in domainNames : ConsumerProcess(d)
    \/ \E d \in domainNames : ConsumerExit(d)
    \/ \E d \in domainNames : OlderProcess(d)
    \/ \E d \in domainNames : OlderExit(d)
    \/ ExpireError
    \/ Report
    \/ \E d \in domainNames : Reconcile(d)
    \/ \E d \in domainNames : NoPrimary(d)
    \/ \E d \in domainNames : ComputeLag(d)
    \/ \E d \in domainNames : Sleep(d)

Spec == Init /\ [][Next]_vars

\* The most fetch goroutines any configuration starts.
MaxTargets == 3

\* the steps of the goroutine running runDomainMonitor(d, ...)
Monitor(d) ==
    Poll(d) \/ WgWait(d) \/ Reconcile(d) \/ NoPrimary(d) \/ ComputeLag(d) \/ Sleep(d)

\* the steps of the fetch goroutine started for target i
Fetcher(d, i) ==
    /\ i \in Goroutines
    /\ FetchOk(d, i) \/ FetchFail(d, i) \/ Send(d, i) \/ Lock(d, i) \/ Unlock(d, i)

\* the steps of the cycle's consumer goroutine
Consumer(d) == ConsumerProcess(d) \/ ConsumerExit(d)

\* the steps of the consumer goroutines of earlier cycles
OlderConsumers(d) == OlderProcess(d) \/ OlderExit(d)

\* the steps of the one consumer of an earlier cycle that is followed
FollowedConsumer(d) == OlderConsumers(d) /\ tracked'[d] # tracked[d]

\* Every goroutine that can run is scheduled; every fetch returns (the DNS
\* client's timeout), every sleep ends and processError returns.
Fairness ==
    \A d \in AllDomains :
        /\ WF_vars(Monitor(d))
        /\ \A i \in 1..MaxTargets : WF_vars(Fetcher(d, i))
        /\ WF_vars(Consumer(d))
        /\ WF_vars(OlderConsumers(d))
        /\ WF_vars(FollowedConsumer(d))

\* The configuration explored under fairness.
FairConfigurations ==
    { [p |-> <<"a">>, s |-> <<"c">>, m |-> TRUE, debug |-> FALSE] }

FairInit ==
    InitFollowing({"d1"}, FairConfigurations, {<<ExchangeFails, ExchangeAnswers>>}, "none")

FairSpec == FairInit /\ [][Next]_vars /\ Fairness

(***************************************************************************)
(* Properties.                                                             *)
(***************************************************************************)
\* getSerials has returned in the current cycle of d
Returned(d) == pc[d] \in {"reconcile", "check", "sleep"} \/ outcome[d] # "none"

\* the reconciliation of the current cycle of d is done
Reconciled(d) == pc[d] \in {"check", "sleep"} \/ outcome[d] # "none"

\* the evaluation of the current cycle of d has ended
Evaluated(d) == outcome[d] # "none"

\* the max serial and reference primary of the cycle, and of its samples, are these
CycleUses(d, max, server) ==
    /\ maxSerial[d] = max
    /\ maxSerialPrimaryServer[d] = server
    /\ \A k \in 1..Len(lagSamples[d]) : lagSamples[d][k].max = max
    /\ \A k \in 1..Len(gauges[d]) : gauges[d][k].primary = server

\* C1 as stated: in every cycle whose PollResult has a primary entry, the max
\* serial and reference primary used for the cycle's lag samples are those of
\* the first primary holding the largest serial of that PollResult.
C1_Original ==
    \A d \in domainNames :
        (outcome[d] = "published" /\ PrimaryEntries(d) # {}) =>
            CycleUses(d, serials[d][LargestPrimary(d)], LargestPrimary(d))

\* C1 amended: when some primary entry of the PollResult is strictly larger
\* than the max serial remembered from earlier cycles, the cycle's max serial
\* and reference primary are those of the first primary, in configured order,
\* holding the largest serial of the PollResult; in every other cycle the
\* remembered max serial and reference primary are kept.
C1_Amended ==
    \A d \in domainNames :
        Reconciled(d) =>
            IF \E i \in PrimaryEntries(d) :
                   SerialLess(prevMaxSerial[d], serials[d][primaryServers[i]])
            THEN CycleUses(d, serials[d][LargestPrimary(d)], LargestPrimary(d))
            ELSE CycleUses(d, prevMaxSerial[d], prevPrimaryServer[d])

\* two primaries tie on a serial above the remembered one and lag was published
C1_Witness ==
    /\ pc["d1"] = "sleep"
    /\ Len(primaryServers) = 2
    /\ PrimaryEntries("d1") = {1, 2}
    /\ serials["d1"]["a"] = serials["d1"]["b"]
    /\ SerialLess(prevMaxSerial["d1"], serials["d1"]["a"])
    /\ maxSerialPrimaryServer["d1"] = "a"
    /\ Len(gauges["d1"]) >= 2

\* the error consumer of channel c holds a received error it has not processed yet
Pending(d) == IF cpc[d] = "process" THEN 1 ELSE 0

NothingPublished(d) ==
    /\ lagSamples[d] = <<>>
    /\ gauges[d] = <<>>
    /\ maxLagGauge[d] = <<>>

\* C2: every cycle, the first or a later one, whose PollResult has no primary
\* entry ends in NoPrimaryResponded, with no lag sample and no gauge update.
C2_Claim ==
    \A d \in domainNames :
        (Evaluated(d) /\ PrimaryEntries(d) = {}) =>
            /\ outcome[d] = "NoPrimaryResponded"
            /\ NothingPublished(d)

\* C3: the top of the loop is reached again only from the sleep, in every
\* cycle, also in one that ends in NoPrimaryResponded.
C3_Claim ==
    [][\A d \in domainNames : (pc[d] # "poll" /\ pc'[d] = "poll") => pc[d] = "sleep"]_vars

\* x + y on int64, modulo 2^64
Add64(x, y) ==
    LET s0 == x[4] + y[4]
        c0 == IF s0 >= Limb THEN 1 ELSE 0
        s1 == x[3] + y[3] + c0
        c1 == IF s1 >= Limb THEN 1 ELSE 0
        s2 == x[2] + y[2] + c1
        c2 == IF s2 >= Limb THEN 1 ELSE 0
        s3 == x[1] + y[1] + c2
    IN  <<s3 % Limb, s2 % Limb, s1 % Limb, s0 % Limb>>

\* the int64 v is the integer max - serial: v + serial = max modulo 2^64, v is
\* within -(2^32 - 1) .. 2^32 - 1, and v is negative exactly if serial > max
IsDifference(v, max, serial) ==
    /\ Add64(v, <<0, 0, serial[1], serial[2]>>) = <<0, 0, max[1], max[2]>>
    /\ v[1] = v[2]
    /\ v[1] \in {0, MaxLimb}
    /\ (v[1] = MaxLimb) <=> SerialLess(max, serial)

\* C4: every lag sample, and the gauge value published for it, is exactly
\* int64(max serial) - int64(server serial): negative when the server is
\* ahead, never clamped, never wrapped as uint32 arithmetic would.
C4_Theorem ==
    \A d \in domainNames :
        \A k \in 1..Len(lagSamples[d]) :
            LET sample == lagSamples[d][k]
            IN  /\ IsDifference(sample.lag, maxSerial[d], serials[d][sample.server])
                /\ metricsOn => gauges[d][k].value = sample.lag

\* a published sample of 1 - (2^32 - 1) = -(2^32 - 2)
C4_Witness ==
    /\ metricsOn
    /\ \E k \in 1..Len(gauges["d1"]) :
          /\ gauges["d1"][k].value = <<MaxLimb, MaxLimb, 0, 2>>
          /\ maxSerial["d1"] = <<0, 1>>
          /\ serials["d1"][gauges["d1"][k].secondary] = <<MaxLimb, MaxLimb>>

\* the goroutines of the cycle whose fetch of the server succeeded
Succeeded(d, server) ==
    {i \in Goroutines : gpc[d][i] = "done" /\ GoroutineServer(i) = server}

\* C5: whatever the interleaving, the map getSerials returns holds exactly the
\* servers with a successful fetch, each with a serial such a fetch returned.
C5_Theorem ==
    \A d \in domainNames :
        Returned(d) =>
            /\ DOMAIN serials[d] =
                   {server \in {GoroutineServer(i) : i \in Goroutines} :
                        Succeeded(d, server) # {}}
            /\ \A server \in DOMAIN serials[d] :
                   \E i \in Succeeded(d, server) : serials[d][server] = gserial[d][i]

\* getSerials returned two successful fetches and one failed one
C5_Witness ==
    /\ Len(TargetServers) = 3
    /\ pc["d1"] = "reconcile"
    /\ DOMAIN serials["d1"] = {"a", "b"}
    /\ serials["d1"]["a"] # serials["d1"]["b"]
    /\ gpc["d1"][3] = "failed"

\* C6: reconciliation and lag computation run only when every fetch goroutine
\* of the cycle has completed; none is in flight while the map is read.
C6_Theorem ==
    \A d \in domainNames :
        pc[d] \in {"reconcile", "check"} =>
            /\ \A i \in Goroutines : gpc[d][i] \in {"done", "failed"}
            /\ wg[d] = 0
            /\ mutex[d] = 0

\* the evaluation is about to read a map filled by fetches that all completed
C6_Witness ==
    /\ pc["d1"] = "check"
    /\ Len(TargetServers) = 3
    /\ \E i \in Goroutines : gpc["d1"][i] = "failed"
    /\ \E i \in Goroutines : gpc["d1"][i] = "done"

\* the failed fetches of the current cycle of d
FailedFetches(d) == Cardinality({i \in Goroutines : gpc[d][i] \in {"send", "failed"}})

\* the increments of the error counter the current cycle of d has caused
Counted(d) ==
    FailedFetches(d) + (IF outcome[d] = "NoPrimaryResponded" THEN 1 ELSE 0)
        - uncounted[d]

\* the cycle of channel c is over: evaluated, and its error consumer has ended
Complete(d) == cpc[d] = "done" /\ Evaluated(d)

\* C7: the error counter is incremented once per error event (a failed fetch,
\* a NoPrimaryResponded): at no time has a cycle caused more increments than
\* it has error events, the error its consumer holds included, and once the
\* cycle is over (evaluated, its consumer ended) it has caused exactly as many;
\* of the earlier cycles only the errors their consumers hold are uncounted.
C7_Theorem ==
    \A d \in domainNames :
        /\ uncounted[d] >= Pending(d)
        /\ Complete(d) => uncounted[d] = 0
        /\ uncountedOlder[d] = older[d]["process"]

\* a cycle is over in which both primaries' fetches failed, the secondary's
\* did not, and no primary responded: three increments
C7_Witness ==
    /\ Len(TargetServers) = 3
    /\ Complete("d1")
    /\ outcome["d1"] = "NoPrimaryResponded"
    /\ FailedFetches("d1") = 2
    /\ Counted("d1") = 3
    /\ gpc["d1"][3] = "done"

\* the positions of the target list that have an entry in the PollResult
PresentTargets(d) == {i \in 1..Len(TargetServers) : TargetServers[i] \in DOMAIN serials[d]}

\* C8: a cycle that computes lag has one sample (and, with a metrics sink, one
\* gauge update) for each entry of the target list present in the PollResult,
\* in the list's order, none for an absent one, and no error beyond the
\* failed fetches.
C8_Theorem ==
    \A d \in domainNames :
        outcome[d] = "published" =>
            /\ {lagSamples[d][k].index : k \in 1..Len(lagSamples[d])} = PresentTargets(d)
            /\ Len(lagSamples[d]) = Cardinality(PresentTargets(d))
            /\ \A k \in 1..Len(lagSamples[d]) :
                  /\ lagSamples[d][k].server = TargetServers[lagSamples[d][k].index]
                  /\ k > 1 => lagSamples[d][k - 1].index < lagSamples[d][k].index
            /\ Len(gauges[d]) = IF metricsOn THEN Len(lagSamples[d]) ELSE 0
            /\ \A k \in 1..Len(gauges[d]) : gauges[d][k].secondary = lagSamples[d][k].server
            /\ uncounted[d] = Pending(d)

\* lag was published for two of three targets, the third having failed
C8_Witness ==
    /\ outcome["d1"] = "published"
    /\ Len(TargetServers) = 3
    /\ Len(gauges["d1"]) = 2
    /\ FailedFetches("d1") = 1
    /\ "b" \notin DOMAIN serials["d1"]

\* x < y on int64 (signed)
Less64(x, y) ==
    LET key(v) == <<(v[1] + SignLimb) % Limb, v[2], v[3], v[4]>>
    IN  \E i \in 1..4 : key(x)[i] < key(y)[i] /\ \A j \in 1..(i - 1) : key(x)[j] = key(y)[j]

\* C9: in a cycle that computed lag samples, max_lag_seconds is the largest of
\* them, also when all of them are negative.
C9_Claim ==
    \A d \in domainNames :
        (outcome[d] = "published" /\ lagSamples[d] # <<>>) =>
            /\ \E k \in 1..Len(lagSamples[d]) : lagSamples[d][k].lag = maxLagSeconds[d]
            /\ \A k \in 1..Len(lagSamples[d]) : ~Less64(maxLagSeconds[d], lagSamples[d][k].lag)
            /\ metricsOn => maxLagGauge[d] = <<maxLagSeconds[d]>>

\* what the evaluation of the current cycle of d was given
EvaluationInput(d) ==
    [pollResult |-> serials[d], primaries |-> primaryServers, secondaries |-> secondaryServers]

\* what the evaluation of the current cycle of d found remembered
EvaluationMemory(d) == [max |-> prevMaxSerial[d], primary |-> prevPrimaryServer[d]]

\* what the evaluation of the current cycle of d yielded
EvaluationOutput(d) ==
    [max |-> maxSerial[d],
     primary |-> maxSerialPrimaryServer[d],
     samples |-> [k \in 1..Len(lagSamples[d]) |->
                     [server |-> lagSamples[d][k].server, lag |-> lagSamples[d][k].lag]],
     maxLag |-> maxLagSeconds[d],
     outcome |-> outcome[d]]

\* History: keep the evaluation just ended, to compare later ones with it.
Capture(d) ==
    /\ Evaluated(d)
    /\ snap[d] = <<>>
    /\ snap' = [snap EXCEPT ![d] = [input |-> EvaluationInput(d),
                                    memory |-> EvaluationMemory(d),
                                    output |-> EvaluationOutput(d),
                                    old |-> FALSE]]
    /\ UNCHANGED <<configVars, reporterVars, memoryVars, reportVars, goVars, chanVars, errorCount,
                   pc, uncounted, uncountedOlder, outcome>>

HistoryNext == Next \/ \E d \in domainNames : Capture(d)

\* The configuration explored with the history: one server, primary and secondary.
HistoryConfigurations ==
    { [p |-> <<"a">>, s |-> <<"a">>, m |-> TRUE, debug |-> FALSE] }

HistoryInit == InitWith({"d1"}, HistoryConfigurations, {<<>>})

HistorySpec == HistoryInit /\ [][HistoryNext]_vars

IndependentConfigurations ==
    { [p |-> <<"a">>, s |-> <<"c">>, m |-> TRUE, debug |-> FALSE] }

IndependentInit ==
    InitWith({"d1", "d2"}, IndependentConfigurations,
             {<<ExchangeFails>>, <<ExchangeAnswers>>})

IndependentSpec == IndependentInit /\ [][Next]_vars

\* everything runDomainMonitor(d, ...) and the goroutines it starts work on
DomainState(d) ==
    <<pc[d], maxSerial[d], maxSerialPrimaryServer[d], serials[d], wg[d], mutex[d],
      gpc[d], gserial[d], fetches[d], gsnap[d], cpc[d], closed[d], older[d], uncounted[d],
      uncountedOlder[d], outcome[d], prevMaxSerial[d], prevPrimaryServer[d], observed[d],
      tracked[d],
      lagSamples[d], maxLagSeconds[d], gauges[d], maxLagGauge[d], snap[d]>>

\* Every goroutine of domain d can take its next step, or waits for a
\* goroutine of the same domain (the barrier for the fetches, a send for the
\* cycle's consumer, Lock for the holder of the cycle's mutex, the consumer
\* for a send or the close), or for a consumer of d to return where the
\* number of live consumers is capped.
Unblocked(d) ==
    /\ pc[d] = "poll" => ENABLED Poll(d) \/ LiveConsumers(d) >= MaxConsumers
    /\ pc[d] = "wait" =>
          ENABLED WgWait(d) \/ \E i \in Goroutines : gpc[d][i] \notin {"done", "failed"}
    /\ pc[d] = "reconcile" => ENABLED Reconcile(d)
    /\ pc[d] = "check" => ENABLED NoPrimary(d) \/ ENABLED ComputeLag(d)
    /\ pc[d] = "sleep" => ENABLED Sleep(d)
    /\ \A i \in Goroutines :
          /\ gpc[d][i] = "fetch" => ENABLED FetchOk(d, i) \/ ENABLED FetchFail(d, i)
          /\ gpc[d][i] = "send" => ENABLED Send(d, i) \/ cpc[d] = "process"
          /\ gpc[d][i] = "lock" => ENABLED Lock(d, i) \/ mutex[d] \in Goroutines \ {i}
          /\ gpc[d][i] = "locked" => ENABLED Unlock(d, i)
    /\ cpc[d] = "process" => ENABLED ConsumerProcess(d)
    /\ cpc[d] = "recv" => ENABLED ConsumerExit(d) \/ pc[d] = "wait"
    /\ older[d]["process"] > 0 => ENABLED OlderProcess(d)
    /\ older[d]["recv"] > 0 => ENABLED OlderExit(d)

\* a step that changes the state of two domains
ChangesTwo ==
    /\ Next
    /\ \E d \in domainNames : \E e \in domainNames \ {d} :
          DomainState(d)' # DomainState(d) /\ DomainState(e)' # DomainState(e)

\* C11: domain monitors are independent.  Whatever state the other domain is
\* in, every goroutine of a domain can take its next step or waits for a
\* goroutine of its own domain only, and no step changes the state of two
\* domains: no lock and no per-domain state is shared.
C11_Theorem == (\A d \in domainNames : Unblocked(d)) /\ ~ENABLED ChangesTwo

\* d1 has finished a cycle and sleeps while d2 is in its fan-out, one fetch
\* outstanding, one goroutine holding the cycle's mutex
C11_Witness ==
    /\ domainNames = {"d1", "d2"}
    /\ pc["d1"] = "sleep"
    /\ ENABLED Sleep("d1")
    /\ pc["d2"] = "wait"
    /\ gpc["d2"] = <<"locked", "fetch">>
    /\ mutex["d2"] = 1

(***************************************************************************)
(* One response at a time: every exchange of a run returns the same.       *)
(***************************************************************************)
\* The configuration explored with single responses.
FetchConfigurations ==
    { [p |-> <<"a">>, s |-> <<"c">>, m |-> TRUE, debug |-> FALSE] }

FetchInit == InitWith({"d1"}, FetchConfigurations, {<<response>> : response \in Responses})

FetchSpec == FetchInit /\ [][Next]_vars

\* the exchange succeeded, the response is present with the success response
\* code, its answer section is exactly one record and that record is an SOA
Usable(response) ==
    /\ response.err = Nil
    /\ response.r.present
    /\ response.r.rcode = "RcodeSuccess"
    /\ Len(response.r.answer) = 1
    /\ response.r.answer[1].type = "SOA"

\* C12 as stated: getSerial returns a serial if and only if the response is
\* usable, and then the serial of its SOA record; in every other case it
\* returns a failure, the goroutine sends the error to the cycle's consumer
\* and writes no map entry, so that the server is absent from the map
\* getSerials returns.
C12_Claim ==
    \A d \in domainNames : \A i \in Goroutines :
        LET response == replies[d][1]
        IN  (pc[d] = "wait" /\ gpc[d][i] # "fetch") =>
                IF Usable(response)
                THEN /\ gpc[d][i] \in {"lock", "locked", "done"}
                     /\ gserial[d][i] = response.r.answer[1].serial
                     /\ gpc[d][i] = "done" =>
                            /\ MapHas(serials[d], GoroutineServer(i))
                            /\ MapGet(serials[d], GoroutineServer(i)) = gserial[d][i]
                ELSE /\ gpc[d][i] \in {"send", "failed"}
                     /\ ~MapHas(serials[d], GoroutineServer(i))

\* C13: each domain monitor loops forever.  With every goroutine scheduled
\* and every fetch returning, every cycle's fan-out is followed by the return
\* of getSerials, however many fetches fail, and the monitor starts a new
\* cycle again and again.
C13_Theorem ==
    \A d \in AllDomains :
        /\ pc[d] = "wait" ~> pc[d] = "reconcile"
        /\ [](pc[d] # "off" => <>(pc[d] = "poll"))
        /\ [](pc[d] # "off" => <>(pc[d] = "wait"))

\* getSerials has returned in a cycle in which every fetch failed, and the
\* consumer is still busy with an error
C13_Witness ==
    /\ pc["d1"] = "reconcile"
    /\ \A i \in Goroutines : gpc["d1"][i] = "failed"
    /\ cpc["d1"] = "process"
    /\ older["d1"]["process"] > 0

(***************************************************************************)
(* Fetches per cycle.                                                      *)
(***************************************************************************)
\* f[1] + ... + f[n]
RECURSIVE SumTo(_, _)
SumTo(f, n) == IF n = 0 THEN 0 ELSE f[n] + SumTo(f, n - 1)

\* C14: within one cycle no entry of the target list is fetched twice, every
\* entry whose goroutine is past getSerial, failed or not, was fetched exactly
\* once, and when getSerials returns the cycle has issued
\* len(primaryServers) + len(secondaryServers) fetches.
C14_Theorem ==
    \A d \in domainNames :
        /\ \A i \in Goroutines :
              /\ fetches[d][i] <= 1
              /\ gpc[d][i] \in {"lock", "locked", "done", "send", "failed"} =>
                    fetches[d][i] = 1
        /\ Returned(d) =>
              SumTo(fetches[d], Len(TargetServers))
                  = Len(primaryServers) + Len(secondaryServers)

\* one server is primary and secondary; the cycle before had a failed fetch,
\* in this one the fetch of the primary entry failed and that of the
\* secondary entry did not, each entry was fetched once, getSerials returned
C14_Witness ==
    /\ primaryServers = <<"a">>
    /\ secondaryServers = <<"a">>
    /\ pc["d1"] = "reconcile"
    /\ gpc["d1"] = <<"failed", "done">>
    /\ fetches["d1"] = <<1, 1>>
    /\ older["d1"]["process"] > 0

(***************************************************************************)
(* The error-rate reporter under every setting of m and debug.             *)
(***************************************************************************)
\* The configurations explored for the reporter.
ReporterConfigurations ==
    { [p |-> <<"a">>, s |-> <<"c">>, m |-> x, debug |-> y] : x \in BOOLEAN, y \in BOOLEAN }

ReporterInit ==
    InitWith({"d1"}, ReporterConfigurations, {<<ExchangeFails, ExchangeAnswers>>})

ReporterSpec == ReporterInit /\ [][Next]_vars

\* everything but the reporter's own state
BesidesReporter ==
    <<configVars, snap, memoryVars, reportVars, goVars, chanVars, pc, errorCount,
      uncounted, uncountedOlder, outcome>>

\* a step of the reporter that changes the counter or a monitor's state
ReporterAlters == Report /\ BesidesReporter' # BesidesReporter

\* C15 as stated: whatever m and debug are, the reporter never returns, its
\* loop can always take its next iteration, and no iteration changes the
\* error counter or the state of a domain monitor.
C15_Original ==
    /\ rpc # "returned"
    /\ ENABLED Report
    /\ ~ENABLED ReporterAlters

\* C15 amended: the reporter has returned exactly if no metrics sink is
\* configured and debug is off; in every other configuration it never returns
\* and its loop can always take its next iteration; no iteration changes the
\* error counter or the state of a domain monitor.
C15_Amended ==
    /\ rpc = "returned" <=> (~metricsOn /\ ~debugOn)
    /\ rpc # "returned" => rpc = "report" /\ ENABLED Report
    /\ ~ENABLED ReporterAlters

\* a metrics sink is configured, debug is off, the counter holds an error of
\* a cycle that has ended, and the reporter is in its loop
C15_Witness ==
    /\ metricsOn
    /\ ~debugOn
    /\ rpc = "report"
    /\ ENABLED Report
    /\ errorCount > 0
    /\ outcome["d1"] = "NoPrimaryResponded"

(***************************************************************************)
(* NoPrimaryResponded and the remembered maximum.                          *)
(***************************************************************************)
\* C16 as stated: a cycle whose map holds the entry of at least one primary,
\* whatever its serial, does not end in NoPrimaryResponded: it has a reference
\* primary and publishes lag samples.
C16_Claim ==
    \A d \in domainNames :
        (Evaluated(d) /\ PrimaryEntries(d) # {}) =>
            /\ outcome[d] = "published"
            /\ maxSerialPrimaryServer[d] # NoServer
            /\ lagSamples[d] # <<>>

\* C17: across the cycles of one domain monitor the remembered max serial
\* never decreases and always equals the largest primary serial of any
\* PollResult so far (0 when there was none); the remembered reference primary
\* changes only in a step in which the max serial strictly increases, and the
\* new one is a primary whose entry in the PollResult is exactly that serial.
C17_Theorem ==
    /\ [](\A d \in domainNames : maxSerial[d] = observed[d])
    /\ [][\A d \in domainNames :
              /\ ~SerialLess(maxSerial'[d], maxSerial[d])
              /\ maxSerialPrimaryServer'[d] # maxSerialPrimaryServer[d] =>
                     /\ SerialLess(maxSerial[d], maxSerial'[d])
                     /\ \E i \in PrimaryEntries(d) :
                            /\ primaryServers[i] = maxSerialPrimaryServer'[d]
                            /\ serials[d][primaryServers[i]] = maxSerial'[d]]_vars

\* a later cycle raised the max serial above a remembered one and moved the
\* reference primary from one primary to another
C17_Witness ==
    /\ pc["d1"] = "check"
    /\ prevPrimaryServer["d1"] = "a"
    /\ maxSerialPrimaryServer["d1"] = "b"
    /\ SerialLess(Zero32, prevMaxSerial["d1"])
    /\ SerialLess(prevMaxSerial["d1"], maxSerial["d1"])
    /\ observed["d1"] = serials["d1"]["b"]

\* the servers configured as primaries
Primaries == {primaryServers[i] : i \in 1..Len(primaryServers)}

\* C18: in every cycle that publishes lag, the lag sample of every primary
\* present in the PollResult is greater than or equal to 0, so only a server
\* that is not configured as a primary can have a negative lag sample.
C18_Theorem ==
    \A d \in domainNames :
        /\ outcome[d] = "published" =>
               \A i \in PrimaryEntries(d) :
                   \E k \in 1..Len(lagSamples[d]) : lagSamples[d][k].index = i
        /\ \A k \in 1..Len(lagSamples[d]) :
               /\ lagSamples[d][k].server \in Primaries => ~Neg64(lagSamples[d][k].lag)
               /\ Neg64(lagSamples[d][k].lag) => lagSamples[d][k].server \notin Primaries

\* a published cycle in which one primary is behind the max serial and the
\* secondary is ahead of it
C18_Witness ==
    /\ outcome["d1"] = "published"
    /\ primaryServers = <<"a", "b">>
    /\ \E k \in 1..Len(lagSamples["d1"]) :
           /\ lagSamples["d1"][k].server = "a"
           /\ Gt64(lagSamples["d1"][k].lag, Zero64)
    /\ \E k \in 1..Len(lagSamples["d1"]) :
           /\ lagSamples["d1"][k].server = "c"
           /\ Neg64(lagSamples["d1"][k].lag)

\* the fetch goroutines of the cycle that have returned, or were never started
Finished(d) == {i \in Goroutines : gpc[d][i] \in {"done", "failed", "idle"}}

\* C19: in every cycle and every interleaving the cycle's error channel is
\* closed exactly once, in the step that ends the wait for the fetch
\* goroutines, when each of them has finished its send and returned; no
\* goroutine is ever at its send with the channel closed; every error sent was
\* received by the cycle's consumer by the time the channel is closed; and the
\* consumer, also one that outlives its cycle, returns, so that consumers do
\* not accumulate across cycles.
C19_Theorem ==
    /\ [](\A d \in domainNames :
              /\ \A i \in Goroutines : gpc[d][i] = "send" => ~closed[d]
              /\ pc[d] = "wait" => ~closed[d]
              /\ closed[d] => Finished(d) = Goroutines
              /\ pc[d] \in {"reconcile", "check"} => uncounted[d] = Pending(d)
              /\ tracked[d] \in {"process", "recv"} => older[d][tracked[d]] > 0)
    /\ [][\A d \in domainNames :
              /\ closed'[d] # closed[d] =>
                     IF closed'[d]
                     THEN pc[d] = "wait" /\ pc'[d] = "reconcile" /\ Finished(d) = Goroutines
                     ELSE pc[d] = "poll" /\ pc'[d] = "wait"
              /\ (pc[d] = "wait" /\ pc'[d] # "wait") => closed'[d]]_vars
    /\ \A d \in AllDomains :
           /\ (cpc[d] = "recv" /\ closed[d]) ~> (cpc[d] = "done" \/ pc[d] = "wait")
           /\ (tracked[d] \in {"process", "recv"}) ~> (tracked[d] = "none")

\* a consumer that outlived its cycle is followed and still holds an error,
\* while a fetch goroutine of the next cycle is at its send, the channel open
C19_Witness ==
    /\ tracked["d1"] = "process"
    /\ pc["d1"] = "wait"
    /\ ~closed["d1"]
    /\ \E i \in Goroutines : gpc["d1"][i] = "send"

====
